---- MODULE Spec2Model ----
(***************************************************************************)
(* A model of biothings.hub.dataindex: the job-stage registrar            *)
(* (indexer_registrar.py) that logs the progress of a job into a build    *)
(* document, and the three-phase snapshot pipeline (snapshooter.py) that   *)
(* drives it.                                                              *)
(*                                                                         *)
(* Python dictionaries are functions with a finite domain of strings.  A   *)
(* Job record is such a function (an absent key is absent from its         *)
(* DOMAIN).  The dictionaries that merge() walks are tagged values: a      *)
(* dictionary is [d |-> f], anything else is [s |-> v].                    *)
(*                                                                         *)
(* Assertions are taken to be enabled (the interpreter runs without -O)    *)
(* and time.time() is taken to be non-decreasing.                          *)
(***************************************************************************)
EXTENDS Integers, Sequences, FiniteSets, TLC

\* ------------------------------------------------------------ bounds
MaxClock == 1

\* --------------------------------------------------------- constants
READY == "READY"
STARTED == "STARTED"
DONE == "DONE"

Pid == 7

Regs == {"r1", "r2"}
Runs == {"p1", "p2"}
Builds == {"b1", "b2"}
Missing == [none |-> TRUE]

IndexName == "__index_name__"
Hosts == "localhost:9200"
EnvName == "dev"
Logfile == "/log/file"

BaseSteps == {"index"}

\* the classes of the registrars of one run of the model
Casts ==
    { [r \in Regs |-> IF r = "r1" THEN "Base" ELSE "MainIndex"],
      [r \in Regs |-> IF r = "r1" THEN "MainIndex" ELSE "PostIndex"],
      [r \in Regs |-> IF r = "r1" THEN "PreIndex" ELSE "Base"],
      [r \in Regs |-> "MainIndex"] }

\* ------------------------------------------------------ tagged values
Leaf(v) == [s |-> v]
Dict(f) == [d |-> f]
EmptyDict == Dict(<<>>)
IsDict(v) == DOMAIN v = {"d"}
Keys(v) == DOMAIN v.d
Without(f, k) == [x \in (DOMAIN f) \ {k} |-> f[x]]
HasTrue(f, k) == k \in DOMAIN f /\ f[k] = Leaf(TRUE)

\* merge(x, dx): dx is laid over x, key by key and level by level; a level
\* of dx marked __REPLACE__ replaces that level of x.
RECURSIVE merge(_, _)
merge(x, dx) ==
    LET fd == Without(dx.d, "__REPLACE__")
        fx == x.d
        Sub(k) == IF k \in DOMAIN fx /\ IsDict(fx[k]) THEN fx[k] ELSE EmptyDict
    IN  IF HasTrue(dx.d, "__REPLACE__")
        THEN merge(EmptyDict, Dict(fd))
        ELSE Dict([k \in (DOMAIN fx) \cup (DOMAIN fd) |->
                    IF k \in DOMAIN fd
                    THEN IF IsDict(fd[k]) THEN merge(Sub(k), fd[k]) ELSE fd[k]
                    ELSE fx[k]])

\* timesofar(t0): the elapsed time as display text
timesofar(t0, t) == <<t - t0, "s">>

\* ------------------------------------------------------------- state
VARIABLES
    store,      \* the src_build collection: build id -> document | Missing
    now,        \* the clock read by time.time() and datetime.now()
    stage,      \* registrar -> Stage
    t0,         \* registrar -> self.t0
    kind,       \* registrar -> its class
    bld,        \* registrar -> indexer.build_name
    outcome,    \* registrar -> how its last finalize call ended
    own,        \* registrar -> the position of the record its started() appended
    last,       \* the call made by the last step
    pc,         \* pipeline run -> where its coroutine or its worker stands
    ph,         \* pipeline run -> the phase of its loop (1 pre, 2 snapshot, 3 post)
    idx,        \* pipeline run -> the index it snapshots
    rstage,     \* pipeline run -> the stage of the registrar of each phase
    rb,         \* pipeline run -> the build id its current registrar holds
    rt0,        \* pipeline run -> the start time its current registrar holds
    x,          \* pipeline run -> its CumulativeResult
    wres,       \* pipeline run -> what its worker returned or raised
    repl,       \* pipeline run -> _replace of its snapshot runner
    handed,      \* pipeline run -> the result its last succeed() call was handed
    found,      \* pipeline run -> whether the backend held a snapshot of its name when its runner started
    raised,     \* pipeline run -> the fault its future ended with
    mine,       \* pipeline run -> the position of the record each phase appended
    calls,      \* pipeline run -> the creating and deleting calls it made
    shared,     \* pipeline run -> whether another run was active on its build
    cfgRepo,    \* repcfg.repo, the repository name as configured
    bucket,     \* whether the bucket exists
    repos,      \* the repositories that exist
    snaps,      \* snapshot name -> its state in the backend
    env0,       \* the bucket, repositories and snapshots at the start
    loaded,     \* registrar -> the document its _done() holds between find_one and replace_one
    scan        \* build id -> the document prune() holds between find and replace_one

regVars == <<stage, t0, kind, bld, outcome, own>>
runVars == <<pc, ph, idx, rstage, rb, rt0, x, handed, wres, repl, found, raised, mine, calls, shared>>
envVars == <<cfgRepo, bucket, repos, snaps, env0>>
pipeVars == <<runVars, envVars>>
procVars == <<loaded, scan>>
vars == <<store, now, regVars, procVars, last, pipeVars>>

\* A build document: its job log, its index metadata, its pending tags
EmptyDoc == [jobs |-> <<>>, index |-> EmptyDict, pending |-> <<"snapshot">>]

NoCall == [op |-> "none", reg |-> "", arg |-> EmptyDict, fault |-> "none", writes |-> {}]

\* ------------------------------------------------- IndexJobStateRegistrar

InProgress(job) == job["status"] = "in progress"

\* The job dictionary started() builds
NewJob(step, t) ==
    [step |-> step, status |-> "in progress", step_started_at |-> t,
     logfile |-> Logfile, pid |-> Pid]

\* collection.update({"_id": id}, {"$push": {"jobs": job}}): no document, no change
PushJob(st, b, job) ==
    IF st[b] = Missing THEN st
    ELSE [st EXCEPT ![b].jobs = Append(@, job)]

\* started() without its assertion on the stage
StartedOp_NoGuard(stg, b, step, st, t) ==
    [fault |-> "none", stage |-> STARTED, t0 |-> t,
     store |-> PushJob(st, b, NewJob(step, t)), writes |-> {b}]

\* started(step): the stage, the clock reading and the collection afterwards
StartedOp(stg, b, step, st, t) ==
    IF stg # READY
    THEN [fault |-> "InvalidState", stage |-> stg, t0 |-> -1, store |-> st, writes |-> {}]
    ELSE [fault |-> "none", stage |-> STARTED, t0 |-> t,
          store |-> PushJob(st, b, NewJob(step, t)), writes |-> {b}]

\* The label each class passes to started()
StepOf(k, step) ==
    CASE k = "PreIndex" -> "pre-index"
      [] k = "MainIndex" -> "index"
      [] k = "PostIndex" -> "post-index"
      [] OTHER -> step

\* func of failed(error) writing an index entry as well
FailedFunc_Index(error) ==
    [job |-> [status |-> "failed", err |-> error], ready |-> TRUE, result |-> EmptyDict]

\* func of failed(error)
FailedFunc(error) ==
    [job |-> [status |-> "failed", err |-> error], ready |-> FALSE, result |-> EmptyDict]

\* func of succeed(result): result.pop("__READY__", False) decides the index delta
SucceedFunc(result) ==
    [job |-> [status |-> "success"],
     ready |-> HasTrue(result.d, "__READY__"),
     result |-> Dict(Without(result.d, "__READY__"))]

\* delta_build after func(job, delta_build)
DeltaBuild(f, name) ==
    IF f.ready THEN Dict([k \in {"index"} |-> Dict([n \in {name} |-> f.result])])
    ELSE EmptyDict

\* the duration taken as t0 minus the clock
Finalize_NegTime(job, f, tt0, t) ==
    LET timed == [k \in (DOMAIN job) \cup {"time", "time_in_s"} |->
                    CASE k = "time" -> timesofar(tt0, t)
                      [] k = "time_in_s" -> tt0 - t
                      [] OTHER -> job[k]]
        popped == Without(timed, "pid")
    IN  [k \in (DOMAIN popped) \cup (DOMAIN f.job) |->
            IF k \in DOMAIN f.job THEN f.job[k] ELSE popped[k]]

\* job after the duration fields, pop("pid") and func
Finalize(job, f, tt0, t) ==
    LET timed == [k \in (DOMAIN job) \cup {"time", "time_in_s"} |->
                    CASE k = "time" -> timesofar(tt0, t)
                      [] k = "time_in_s" -> t - tt0
                      [] OTHER -> job[k]]
        popped == Without(timed, "pid")
    IN  [k \in (DOMAIN popped) \cup (DOMAIN f.job) |->
            IF k \in DOMAIN f.job THEN f.job[k] ELSE popped[k]]

\* merge(build, delta_build): delta_build holds at most the key "index"
MergeBuild(build, delta) ==
    IF "index" \in Keys(delta)
    THEN [build EXCEPT !.index = merge(@, delta.d["index"])]
    ELSE build

\* _done() moving the stage to DONE before it asserts the stage
DoneOp_StageFirst(stg, tt0, b, f, st, t) ==
    LET same(flt, s) == [fault |-> flt, stage |-> s, store |-> st, writes |-> {}]
    IN  IF stg # STARTED THEN same("InvalidState", DONE)
        ELSE IF st[b] = Missing THEN same("MissingBuild", DONE)
        ELSE IF st[b].jobs = <<>> THEN same("IndexError", DONE)
        ELSE LET build == st[b]
                 n == Len(build.jobs)
                 job == build.jobs[n]
             IN  IF "pid" \notin DOMAIN job THEN same("KeyError", DONE)
                 ELSE [fault |-> "none", stage |-> DONE,
                       store |-> [st EXCEPT ![b] =
                                    MergeBuild([build EXCEPT !.jobs[n] = Finalize(job, f, tt0, t)],
                                               DeltaBuild(f, IndexName))],
                       writes |-> {b}]

\* _done() with job.pop("pid", None): a record without a pid is finalized again
DoneOp_PopDefault(stg, tt0, b, f, st, t) ==
    LET same(flt, s) == [fault |-> flt, stage |-> s, store |-> st, writes |-> {}]
    IN  IF stg # STARTED THEN same("InvalidState", stg)
        ELSE IF st[b] = Missing THEN same("MissingBuild", DONE)
        ELSE IF st[b].jobs = <<>> THEN same("IndexError", DONE)
        ELSE LET build == st[b]
                 n == Len(build.jobs)
                 job == build.jobs[n]
             IN  [fault |-> "none", stage |-> DONE,
                  store |-> [st EXCEPT ![b] =
                               MergeBuild([build EXCEPT !.jobs[n] = Finalize(job, f, tt0, t)],
                                          DeltaBuild(f, IndexName))],
                  writes |-> {b}]

\* _done(func)
DoneOp(stg, tt0, b, f, st, t) ==
    LET same(flt, s) == [fault |-> flt, stage |-> s, store |-> st, writes |-> {}]
    IN  IF stg # STARTED THEN same("InvalidState", stg)
        ELSE IF st[b] = Missing THEN same("MissingBuild", DONE)
        ELSE IF st[b].jobs = <<>> THEN same("IndexError", DONE)
        ELSE LET build == st[b]
                 n == Len(build.jobs)
                 job == build.jobs[n]
             IN  IF "pid" \notin DOMAIN job THEN same("KeyError", DONE)
                 ELSE [fault |-> "none", stage |-> DONE,
                       store |-> [st EXCEPT ![b] =
                                    MergeBuild([build EXCEPT !.jobs[n] = Finalize(job, f, tt0, t)],
                                               DeltaBuild(f, IndexName))],
                       writes |-> {b}]

\* MainIndexJSR.succeed: the defaults, with the caller's result merged over them
MainResult(result, t) ==
    merge(Dict([n \in {IndexName} |->
                  Dict([k \in {"__REPLACE__", "host", "environment", "created_at"} |->
                          CASE k = "__REPLACE__" -> Leaf(TRUE)
                            [] k = "host" -> Leaf(Hosts)
                            [] k = "environment" -> Leaf(EnvName)
                            [] OTHER -> Leaf(t)])]),
          result)

\* succeed(result) of class k
SucceedOp(k, stg, tt0, b, result, st, t) ==
    DoneOp(stg, tt0, b,
           SucceedFunc(IF k = "MainIndex" THEN MainResult(result, t) ELSE result),
           st, t)

\* failed(error)
FailedOp(stg, tt0, b, error, st, t) ==
    DoneOp(stg, tt0, b, FailedFunc(error), st, t)

\* prune(collection), one document
Dirty(build) == \E i \in 1..Len(build.jobs) : InProgress(build.jobs[i])

\* prune() that leaves the pid in the record
PruneJob_KeepPid(job) ==
    IF InProgress(job)
    THEN [k \in DOMAIN job |-> IF k = "status" THEN "cancelled" ELSE job[k]]
    ELSE job

PruneJob(job) ==
    IF InProgress(job)
    THEN [k \in (DOMAIN job) \ {"pid"} |-> IF k = "status" THEN "cancelled" ELSE job[k]]
    ELSE job

PruneDoc(build) == [build EXCEPT !.jobs = [i \in 1..Len(build.jobs) |-> PruneJob(build.jobs[i])]]

\* prune(collection): the collection afterwards and the documents replaced
PruneOp(st) ==
    LET dirty == {b \in Builds : st[b] # Missing /\ Dirty(st[b])}
    IN  [store |-> [b \in Builds |-> IF b \in dirty THEN PruneDoc(st[b]) ELSE st[b]],
         writes |-> dirty]

\* ------------------------------------------------------- SnapshotEnv
Steps == <<"pre", "snapshot", "post">>
IdxEnv == "prod"
SnapEnv == "snap_env"
YearText == "2024"
Indices == {"news_2024", "blog_2024", "lost_2024"}
NoBuild == ""

\* A templated name is the sequence of its pieces; "$(Y)" is the year macro
RepoTemplates == { <<"s3_repo">>, <<"s3-", "$(Y)">> }

\* template_out on a name: the year replaces "$(Y)"
template_out(name) == [i \in DOMAIN name |-> IF name[i] = "$(Y)" THEN YearText ELSE name[i]]

\* RepositoryConfig.format(doc).repo
FormatRepo(name) == template_out(name)

\* A build document that holds the metadata of index n of environment IdxEnv
IndexedDoc(n) ==
    [jobs |-> <<>>,
     index |-> Dict([k \in {n} |-> Dict([f \in {"environment"} |-> Leaf(IdxEnv)])]),
     pending |-> <<"snapshot">>]

\* _doc(index): the build whose index.<index>.environment is the indexer
\* environment, or none
DocId(st, index) ==
    LET hits == {b \in Builds :
                    /\ st[b] # Missing
                    /\ index \in Keys(st[b].index)
                    /\ IsDict(st[b].index.d[index])
                    /\ "environment" \in Keys(st[b].index.d[index])
                    /\ st[b].index.d[index].d["environment"] = Leaf(IdxEnv)}
    IN  IF hits = {} THEN NoBuild ELSE CHOOSE b \in hits : TRUE

\* The registrar classes that dispatch(step) gives behave as the stage
\* registrar: started() with the label of the step, succeed() and failed()
SnapStarted(b, step, st, t) == StartedOp(READY, b, step, st, t)
SnapSucceed(stg, tt0, b, result, st, t) == SucceedOp("Base", stg, tt0, b, result, st, t)
SnapFailed(stg, tt0, b, error, st, t) == FailedOp(stg, tt0, b, error, st, t)

\* What a worker hands back: a result, or the fault it raised and its str()
Returned(val) == [ok |-> TRUE, exc |-> "", err |-> "", val |-> val]
Raised(exc, err) == [ok |-> FALSE, exc |-> exc, err |-> err, val |-> EmptyDict]
NoResult == Returned(EmptyDict)

\* pre_snapshot's return value
PreResult ==
    Dict([k \in {"indexer_env", "environment"} |->
            IF k = "indexer_env" THEN Leaf(IdxEnv) ELSE Leaf(SnapEnv)])

\* _snapshot returning replaced false whatever _replace is
SnapResult_Fresh(replaced, t) ==
    Dict([k \in {"replaced", "created_at"} |->
            IF k = "replaced" THEN Leaf(FALSE) ELSE Leaf(t)])

\* _snapshot's return value
SnapResult(replaced, t) ==
    Dict([k \in {"replaced", "created_at"} |->
            IF k = "replaced" THEN Leaf(replaced) ELSE Leaf(t)])

\* Bucket.create: self.region is read and Bucket has no such attribute
BucketCreate(exists) ==
    [bucket |-> exists,
     res |-> Raised("AttributeError", "'Bucket' object has no attribute 'region'")]

\* Snapshot.state(): the backend's state, "N/A" when there is none to get
SnapshotState(name, repo, rs, sn) ==
    IF repo \in rs /\ sn[name] # "ABSENT" THEN sn[name] ELSE "N/A"

\* The loop of snapshot(): one pass from state.started() to the suspension
\* in defer_to_thread.  k is the phase, nstg the stage of its new registrar.
BeginOp(k, index, st, t) ==
    LET b == DocId(st, index) IN
    IF b = NoBuild
    THEN [pc |-> "raised", ph |-> k, nstg |-> "NONE", store |-> st, rb |-> NoBuild,
          t0 |-> 0, raised |-> "ValueError", appended |-> 0]
    ELSE LET r == SnapStarted(b, Steps[k], st, t) IN
         [pc |-> "dispatch", ph |-> k, nstg |-> r.stage, store |-> r.store, rb |-> b,
          t0 |-> r.t0, raised |-> "none", appended |-> Len(r.store[b].jobs)]

\* the loop going on to the next step without calling succeed()
ResumeOp_NoSucceed(k, stg, tt0, b, xx, w, index, snapshot, st, t) ==
    LET stay(r, flt, xr, a) ==
            [stg |-> r.stage, x |-> xr, arg |-> a,
             next |-> [pc |-> IF flt = "none" THEN "done" ELSE "raised", ph |-> k,
                       nstg |-> "NONE", store |-> r.store, rb |-> b, t0 |-> tt0,
                       raised |-> flt, appended |-> 0]]
    IN  IF ~w.ok
        THEN LET r == SnapFailed(stg, tt0, b, w.err, st, t)
             IN  stay(r, IF r.fault = "none" THEN w.exc ELSE r.fault, xx, EmptyDict)
        ELSE LET x1 == merge(xx, w.val)
                 a == Dict([n \in {snapshot} |-> x1])
                 r == SnapSucceed(stg, tt0, b, a, st, t)
             IN  IF k = Len(Steps) THEN stay(r, r.fault, x1, a)
                 ELSE [stg |-> stg, x |-> x1, arg |-> a, next |-> BeginOp(k + 1, index, st, t)]

\* the loop going on to the next step after failed(), without raising
ResumeOp_NoRaise(k, stg, tt0, b, xx, w, index, snapshot, st, t) ==
    LET stay(r, flt, xr, a) ==
            [stg |-> r.stage, x |-> xr, arg |-> a,
             next |-> [pc |-> IF flt = "none" THEN "done" ELSE "raised", ph |-> k,
                       nstg |-> "NONE", store |-> r.store, rb |-> b, t0 |-> tt0,
                       raised |-> flt, appended |-> 0]]
    IN  IF ~w.ok
        THEN LET r == SnapFailed(stg, tt0, b, w.err, st, t)
             IN  IF r.fault # "none" \/ k = Len(Steps)
                 THEN stay(r, IF r.fault = "none" THEN w.exc ELSE r.fault, xx, EmptyDict)
                 ELSE [stg |-> r.stage, x |-> xx, arg |-> EmptyDict, next |-> BeginOp(k + 1, index, r.store, t)]
        ELSE LET x1 == merge(xx, w.val)
                 a == Dict([n \in {snapshot} |-> x1])
                 r == SnapSucceed(stg, tt0, b, a, st, t)
             IN  IF r.fault # "none" THEN stay(r, r.fault, x1, a)
                 ELSE IF k = Len(Steps) THEN stay(r, "none", x1, a)
                 ELSE [stg |-> r.stage, x |-> x1, arg |-> a, next |-> BeginOp(k + 1, index, r.store, t)]

\* the loop handing succeed() the result of the step alone
ResumeOp_StepOnly(k, stg, tt0, b, xx, w, index, snapshot, st, t) ==
    LET stay(r, flt, xr, a) ==
            [stg |-> r.stage, x |-> xr, arg |-> a,
             next |-> [pc |-> IF flt = "none" THEN "done" ELSE "raised", ph |-> k,
                       nstg |-> "NONE", store |-> r.store, rb |-> b, t0 |-> tt0,
                       raised |-> flt, appended |-> 0]]
    IN  IF ~w.ok
        THEN LET r == SnapFailed(stg, tt0, b, w.err, st, t)
             IN  stay(r, IF r.fault = "none" THEN w.exc ELSE r.fault, xx, EmptyDict)
        ELSE LET x1 == w.val
                 a == Dict([n \in {snapshot} |-> x1])
                 r == SnapSucceed(stg, tt0, b, a, st, t)
             IN  IF r.fault # "none" THEN stay(r, r.fault, x1, a)
                 ELSE IF k = Len(Steps) THEN stay(r, "none", x1, a)
                 ELSE [stg |-> r.stage, x |-> x1, arg |-> a, next |-> BeginOp(k + 1, index, r.store, t)]

\* The loop of snapshot() when the worker of phase k is back: failed() and
\* raise on a fault; else merge, succeed() and the next pass of the loop.
\* stg is the stage of the registrar of phase k afterwards, next what the
\* next pass did.
ResumeOp(k, stg, tt0, b, xx, w, index, snapshot, st, t) ==
    LET stay(r, flt, xr, a) ==
            [stg |-> r.stage, x |-> xr, arg |-> a,
             next |-> [pc |-> IF flt = "none" THEN "done" ELSE "raised", ph |-> k,
                       nstg |-> "NONE", store |-> r.store, rb |-> b, t0 |-> tt0,
                       raised |-> flt, appended |-> 0]]
    IN  IF ~w.ok
        THEN LET r == SnapFailed(stg, tt0, b, w.err, st, t)
             IN  stay(r, IF r.fault = "none" THEN w.exc ELSE r.fault, xx, EmptyDict)
        ELSE LET x1 == merge(xx, w.val)
                 a == Dict([n \in {snapshot} |-> x1])
                 r == SnapSucceed(stg, tt0, b, a, st, t)
             IN  IF r.fault # "none" THEN stay(r, r.fault, x1, a)
                 ELSE IF k = Len(Steps) THEN stay(r, "none", x1, a)
                 ELSE [stg |-> r.stage, x |-> x1, arg |-> a, next |-> BeginOp(k + 1, index, r.store, t)]

\* the polling loop leaving on any state but FAILED
PollOp_LeaveEarly(state, replaced, w, t) ==
    IF state = "FAILED" THEN [to |-> "resume", res |-> Raised("ValueError", state)]
    ELSE [to |-> "resume", res |-> Returned(SnapResult(replaced, t))]

\* One turn of the loop of _snapshot on the state it read: raise on FAILED,
\* break and return on SUCCESS, else sleep and read again
PollOp(state, replaced, w, t) ==
    IF state = "FAILED" THEN [to |-> "resume", res |-> Raised("ValueError", state)]
    ELSE IF state = "SUCCESS"
    THEN [to |-> "resume", res |-> Returned(SnapResult(replaced, t))]
    ELSE [to |-> "snap_poll", res |-> w]

\* The first pc of the function of each step
BodyOf(k) ==
    CASE k = 1 -> "pre_repo_exists"
      [] k = 2 -> "snap_exists"
      [] OTHER -> "post"

\* ------------------------------------------------------------ inputs
Results ==
    { EmptyDict,
      Dict([n \in {IndexName} |-> Dict([k \in {"host"} |-> Leaf("other:9200")])]),
      Dict([n \in {"__READY__", IndexName} |->
              IF n = "__READY__" THEN Leaf(TRUE)
              ELSE Dict([k \in {"count"} |-> Leaf("99")])]) }

Errors == {"MockErrorA"}

\* ----------------------------------------------------------- actions
\* no pipeline run, an empty backend
PipeIdle ==
    /\ pc = [p \in Runs |-> "idle"]
    /\ ph = [p \in Runs |-> 1]
    /\ idx = [p \in Runs |-> "news_2024"]
    /\ rstage = [p \in Runs |-> <<"NONE", "NONE", "NONE">>]
    /\ rb = [p \in Runs |-> NoBuild]
    /\ rt0 = [p \in Runs |-> 0]
    /\ x = [p \in Runs |-> EmptyDict]
    /\ handed = [p \in Runs |-> EmptyDict]
    /\ wres = [p \in Runs |-> NoResult]
    /\ repl = [p \in Runs |-> FALSE]
    /\ found = [p \in Runs |-> FALSE]
    /\ raised = [p \in Runs |-> "none"]
    /\ mine = [p \in Runs |-> <<0, 0, 0>>]
    /\ calls = [p \in Runs |-> <<>>]
    /\ shared = [p \in Runs |-> FALSE]

EnvIdle ==
    /\ cfgRepo = <<"s3_repo">>
    /\ bucket = FALSE
    /\ repos = {}
    /\ snaps = [n \in Indices |-> "ABSENT"]
    /\ env0 = [bucket |-> FALSE, repos |-> {}, snaps |-> [n \in Indices |-> "ABSENT"]]

\* no finalize call and no prune() between its read and its write
ProcIdle ==
    /\ loaded = [r \in Regs |-> Missing]
    /\ scan = [b \in Builds |-> Missing]

InitReg ==
    /\ store \in {st \in [Builds -> {EmptyDoc, Missing}] : st["b1"] = EmptyDoc}
    /\ now = 0
    /\ stage = [r \in Regs |-> READY]
    /\ t0 = [r \in Regs |-> 0]
    /\ kind \in Casts
    /\ bld \in {f \in [Regs -> Builds] : f["r1"] = "b1"}
    /\ outcome = [r \in Regs |-> "none"]
    /\ own = [r \in Regs |-> 0]
    /\ last = NoCall
    /\ ProcIdle

Init == InitReg /\ PipeIdle /\ EnvIdle

Tick ==
    /\ now < MaxClock
    /\ now' = now + 1
    /\ last' = NoCall
    /\ UNCHANGED <<store, regVars, procVars, pipeVars>>

Started(r) ==
    \E step \in BaseSteps :
        LET res == StartedOp(stage[r], bld[r], StepOf(kind[r], step), store, now) IN
        /\ stage' = [stage EXCEPT ![r] = res.stage]
        /\ t0' = [t0 EXCEPT ![r] = IF res.fault = "none" THEN res.t0 ELSE @]
        /\ store' = res.store
        /\ own' = [own EXCEPT ![r] = IF res.fault = "none" /\ store[bld[r]] # Missing
                                      THEN Len(res.store[bld[r]].jobs) ELSE @]
        /\ last' = [op |-> "started", reg |-> r, arg |-> EmptyDict,
                    fault |-> res.fault, writes |-> res.writes]
        /\ UNCHANGED <<now, kind, bld, outcome, procVars, pipeVars>>

Finish(r, op, arg, res) ==
    /\ stage' = [stage EXCEPT ![r] = res.stage]
    /\ store' = res.store
    /\ outcome' = [outcome EXCEPT ![r] = IF res.fault = "none" THEN op ELSE res.fault]
    /\ last' = [op |-> op, reg |-> r, arg |-> arg, fault |-> res.fault, writes |-> res.writes]
    /\ UNCHANGED <<now, t0, kind, bld, own, procVars, pipeVars>>

Succeed(r) ==
    \E result \in Results :
        Finish(r, "succeed", result, SucceedOp(kind[r], stage[r], t0[r], bld[r], result, store, now))

Failed(r) ==
    \E error \in Errors :
        Finish(r, "failed", Leaf(error), FailedOp(stage[r], t0[r], bld[r], error, store, now))

Prune ==
    LET res == PruneOp(store) IN
    /\ store' = res.store
    /\ last' = [op |-> "prune", reg |-> "", arg |-> EmptyDict,
                fault |-> "none", writes |-> res.writes]
    /\ UNCHANGED <<now, regVars, procVars, pipeVars>>

Next ==
    \/ Tick
    \/ Prune
    \/ \E r \in Regs : Started(r)
    \/ \E r \in Regs : Succeed(r)
    \/ \E r \in Regs : Failed(r)

Spec == Init /\ [][Next]_vars

\* ------------------------------- registrars in processes of their own
\* Between processes a call is not one step: the steps are the operations
\* on the collection, update, find_one, find and replace_one.

ProcInit ==
    /\ store = [b \in Builds |-> EmptyDoc]
    /\ now = 0
    /\ stage = [r \in Regs |-> READY]
    /\ t0 = [r \in Regs |-> 0]
    /\ kind \in Casts
    /\ bld \in {f \in [Regs -> Builds] : f["r1"] = "b1"}
    /\ outcome = [r \in Regs |-> "none"]
    /\ own = [r \in Regs |-> 0]
    /\ last = NoCall
    /\ ProcIdle
    /\ PipeIdle
    /\ EnvIdle

\* started(): the update with $push is one operation on the collection
ProcStarted(r) ==
    /\ loaded[r] = Missing
    /\ Started(r)

\* _done() up to replace_one: the asserts, find_one, and the document
\* changed in memory
DoneFind(r, op, arg, res) ==
    /\ loaded[r] = Missing
    /\ stage' = [stage EXCEPT ![r] = res.stage]
    /\ loaded' = [loaded EXCEPT ![r] = IF res.fault = "none" THEN res.store[bld[r]] ELSE Missing]
    /\ outcome' = [outcome EXCEPT ![r] = IF res.fault = "none" THEN "find_one" ELSE res.fault]
    /\ last' = [op |-> op, reg |-> r, arg |-> arg, fault |-> res.fault, writes |-> {}]
    /\ UNCHANGED <<store, now, t0, kind, bld, own, scan, pipeVars>>

ProcSucceed(r) ==
    \E result \in Results :
        DoneFind(r, "succeed", result,
                 SucceedOp(kind[r], stage[r], t0[r], bld[r], result, store, now))

ProcFailed(r) ==
    \E error \in Errors :
        DoneFind(r, "failed", Leaf(error), FailedOp(stage[r], t0[r], bld[r], error, store, now))

\* _done(): replace_one writes the document held since find_one
DoneReplace(r) ==
    /\ loaded[r] # Missing
    /\ store' = IF store[bld[r]] = Missing THEN store
                ELSE [store EXCEPT ![bld[r]] = loaded[r]]
    /\ loaded' = [loaded EXCEPT ![r] = Missing]
    /\ outcome' = [outcome EXCEPT ![r] = "replace_one"]
    /\ last' = [op |-> "replace_one", reg |-> r, arg |-> EmptyDict, fault |-> "none",
                writes |-> {bld[r]}]
    /\ UNCHANGED <<now, stage, t0, kind, bld, own, scan, pipeVars>>

\* prune(): find() reads the documents, the stale records are cancelled in
\* memory
PruneFind ==
    /\ scan = [b \in Builds |-> Missing]
    /\ LET res == PruneOp(store) IN
        /\ res.writes # {}
        /\ scan' = [b \in Builds |-> IF b \in res.writes THEN res.store[b] ELSE Missing]
        /\ last' = [op |-> "prune", reg |-> "", arg |-> EmptyDict, fault |-> "none",
                    writes |-> {}]
    /\ UNCHANGED <<store, now, regVars, loaded, pipeVars>>

\* prune(): replace_one writes one of the documents it changed
PruneReplace(b) ==
    /\ scan[b] # Missing
    /\ store' = IF store[b] = Missing THEN store ELSE [store EXCEPT ![b] = scan[b]]
    /\ scan' = [scan EXCEPT ![b] = Missing]
    /\ last' = [op |-> "replace_one", reg |-> "", arg |-> EmptyDict, fault |-> "none",
                writes |-> {b}]
    /\ UNCHANGED <<now, regVars, loaded, pipeVars>>

ProcNext ==
    \/ \E r \in Regs : ProcStarted(r)
    \/ \E r \in Regs : ProcSucceed(r)
    \/ \E r \in Regs : ProcFailed(r)
    \/ \E r \in Regs : DoneReplace(r)
    \/ PruneFind
    \/ \E b \in Builds : PruneReplace(b)

ProcSpec == ProcInit /\ [][ProcNext]_vars

\* --------------------------------------------------- pipeline actions
\* The repository name pre_snapshot hands to Repository: cfg.repo of the
\* formatted configuration
PreRepo == FormatRepo(cfgRepo)

\* The repository name _snapshot hands to Snapshot: self.repcfg.repo
SnapRepo == cfgRepo

Active(q) == pc[q] \notin {"idle", "done", "raised"}
SnapName(p) == idx[p]

PipeInit ==
    /\ store = [b \in Builds |-> IndexedDoc(IF b = "b1" THEN "news_2024" ELSE "blog_2024")]
    /\ now = 0
    /\ stage = [r \in Regs |-> READY]
    /\ t0 = [r \in Regs |-> 0]
    /\ kind = [r \in Regs |-> "Base"]
    /\ bld = [r \in Regs |-> "b1"]
    /\ outcome = [r \in Regs |-> "none"]
    /\ own = [r \in Regs |-> 0]
    /\ last = NoCall
    /\ ProcIdle
    /\ PipeIdle
    /\ cfgRepo \in RepoTemplates
    /\ bucket \in BOOLEAN
    /\ repos \in {{}, {FormatRepo(cfgRepo)}}
    /\ snaps \in {sn \in [Indices -> {"ABSENT", "SUCCESS"}] :
                    \A n \in Indices \ {"news_2024"} : sn[n] = "ABSENT"}
    /\ env0 = [bucket |-> bucket, repos |-> repos, snaps |-> snaps]

\* what one pass of the loop leaves in the run's variables
Pass(p, k, n) ==
    /\ pc' = [pc EXCEPT ![p] = n.pc]
    /\ ph' = [ph EXCEPT ![p] = n.ph]
    /\ store' = n.store
    /\ rb' = [rb EXCEPT ![p] = n.rb]
    /\ rt0' = [rt0 EXCEPT ![p] = n.t0]
    /\ raised' = [raised EXCEPT ![p] = n.raised]
    /\ shared' = [q \in Runs |->
                    \/ shared[q]
                    \/ /\ n.rb # NoBuild
                       /\ \E o \in Runs \ {p} : Active(o) /\ rb[o] = n.rb /\ q \in {o, p}]

\* snapshot(index) is called: the coroutine runs to its first suspension
Begin(p) ==
    /\ pc[p] = "idle"
    /\ \E i \in (IF p = "p1" THEN {"news_2024"} ELSE Indices) :
        LET n == BeginOp(1, i, store, now) IN
        /\ idx' = [idx EXCEPT ![p] = i]
        /\ Pass(p, 1, n)
        /\ rstage' = [rstage EXCEPT ![p][1] = n.nstg]
        /\ mine' = [mine EXCEPT ![p][1] = n.appended]
    /\ UNCHANGED <<now, regVars, procVars, last, x, handed, wres, repl, found, calls, envVars>>

\* defer_to_thread hands the function of the step to a worker
Dispatch(p) ==
    /\ pc[p] = "dispatch"
    /\ pc' = [pc EXCEPT ![p] = BodyOf(ph[p])]
    /\ UNCHANGED <<store, now, regVars, procVars, last, ph, idx, rstage, rb, rt0, x, handed, wres, repl, found,
                   raised, mine, calls, shared, envVars>>

\* defer_to_thread raises: nothing in snapshot() catches it
DispatchFault(p) ==
    /\ pc[p] = "dispatch"
    /\ pc' = [pc EXCEPT ![p] = "raised"]
    /\ raised' = [raised EXCEPT ![p] = "DispatchError"]
    /\ UNCHANGED <<store, now, regVars, procVars, last, ph, idx, rstage, rb, rt0, x, handed, wres, repl, found,
                   mine, calls, shared, envVars>>

\* a step of a worker: its next pc, what it hands back, the call it made
Work(p, to, res, call) ==
    /\ pc' = [pc EXCEPT ![p] = to]
    /\ wres' = [wres EXCEPT ![p] = res]
    /\ calls' = [calls EXCEPT ![p] = IF call = "" THEN @ ELSE Append(@, call)]
    /\ UNCHANGED <<store, now, regVars, procVars, last, ph, idx, rstage, rb, rt0, x, handed, raised,
                   mine, shared, cfgRepo, env0>>

\* pre_snapshot: format the configuration, repo.exists()
PreRepoExists(p) ==
    /\ pc[p] = "pre_repo_exists"
    /\ IF DocId(store, idx[p]) = NoBuild
       THEN Work(p, "resume", Raised("ValueError", "Not a hub-managed index."), "")
       ELSE IF PreRepo \in repos
       THEN Work(p, "resume", Returned(PreResult), "")
       ELSE Work(p, "pre_bucket_exists", wres[p], "")
    /\ UNCHANGED <<repl, found, bucket, repos, snaps>>

\* pre_snapshot: bucket.exists()
PreBucketExists(p) ==
    /\ pc[p] = "pre_bucket_exists"
    /\ Work(p, IF bucket THEN "pre_repo_create" ELSE "pre_bucket_create", wres[p], "")
    /\ UNCHANGED <<repl, found, bucket, repos, snaps>>

\* pre_snapshot: bucket.create(acl)
PreBucketCreate(p) ==
    /\ pc[p] = "pre_bucket_create"
    /\ LET r == BucketCreate(bucket) IN
        /\ bucket' = r.bucket
        /\ Work(p, IF r.res.ok THEN "pre_repo_create" ELSE "resume", r.res, "Bucket.create")
    /\ UNCHANGED <<repl, found, repos, snaps>>

\* pre_snapshot: repo.create(**settings), and the return
PreRepoCreate(p) ==
    /\ pc[p] = "pre_repo_create"
    /\ repos' = repos \cup {PreRepo}
    /\ Work(p, "resume", Returned(PreResult), "Repository.create")
    /\ UNCHANGED <<repl, found, bucket, snaps>>

\* _snapshot: snapshot.exists(), in the repository named as configured
SnapExists(p) ==
    /\ pc[p] = "snap_exists"
    /\ repl' = [repl EXCEPT ![p] = FALSE]
    /\ found' = [found EXCEPT ![p] = snaps[SnapName(p)] # "ABSENT"]
    /\ Work(p, IF SnapshotState(SnapName(p), SnapRepo, repos, snaps) # "N/A"
               THEN "snap_delete" ELSE "snap_create", wres[p], "")
    /\ UNCHANGED <<bucket, repos, snaps>>

\* _snapshot: snapshot.delete()
SnapDelete(p) ==
    /\ pc[p] = "snap_delete"
    /\ IF SnapshotState(SnapName(p), SnapRepo, repos, snaps) = "N/A"
       THEN /\ Work(p, "resume", Raised("NotFoundError", "snapshot_missing_exception"),
                    "Snapshot.delete")
            /\ UNCHANGED <<repl, found, snaps>>
       ELSE /\ snaps' = [snaps EXCEPT ![SnapName(p)] = "ABSENT"]
            /\ repl' = [repl EXCEPT ![p] = TRUE]
            /\ UNCHANGED found
            /\ Work(p, "snap_create", wres[p], "Snapshot.delete")
    /\ UNCHANGED <<bucket, repos>>

\* _snapshot: snapshot.create(index)
SnapCreate(p) ==
    /\ pc[p] = "snap_create"
    /\ IF SnapRepo \notin repos
       THEN /\ Work(p, "resume", Raised("NotFoundError", "repository_missing_exception"),
                    "Snapshot.create")
            /\ UNCHANGED snaps
       ELSE IF snaps[SnapName(p)] # "ABSENT"
       THEN /\ Work(p, "resume", Raised("RequestError", "invalid_snapshot_name_exception"),
                    "Snapshot.create")
            /\ UNCHANGED snaps
       ELSE /\ snaps' = [snaps EXCEPT ![SnapName(p)] = "IN_PROGRESS"]
            /\ Work(p, "snap_poll", wres[p], "Snapshot.create")
    /\ UNCHANGED <<repl, found, bucket, repos>>

\* _snapshot: one turn of the polling loop
SnapPoll(p) ==
    /\ pc[p] = "snap_poll"
    /\ LET r == PollOp(SnapshotState(SnapName(p), SnapRepo, repos, snaps), repl[p], wres[p], now)
       IN  Work(p, r.to, r.res, "")
    /\ UNCHANGED <<repl, found, bucket, repos, snaps>>

\* post_snapshot
Post(p) ==
    /\ pc[p] = "post"
    /\ Work(p, "resume", Returned(EmptyDict), "")
    /\ UNCHANGED <<repl, found, bucket, repos, snaps>>

\* the coroutine is resumed with what the worker handed back
Resume(p) ==
    /\ pc[p] = "resume"
    /\ LET k == ph[p]
           r == ResumeOp(k, rstage[p][k], rt0[p], rb[p], x[p], wres[p], idx[p], SnapName(p),
                         store, now)
       IN  /\ Pass(p, k, r.next)
           /\ x' = [x EXCEPT ![p] = r.x]
           /\ handed' = [handed EXCEPT ![p] = IF wres[p].ok THEN r.arg ELSE @]
           /\ rstage' = [rstage EXCEPT ![p] =
                            [j \in 1..Len(Steps) |->
                                IF j = k THEN r.stg
                                ELSE IF j = r.next.ph THEN r.next.nstg ELSE @[j]]]
           /\ mine' = [mine EXCEPT ![p] =
                            [j \in 1..Len(Steps) |->
                                IF j # k /\ j = r.next.ph THEN r.next.appended ELSE @[j]]]
    /\ UNCHANGED <<now, regVars, procVars, last, idx, wres, repl, found, calls, envVars>>

\* the backend finishes a snapshot, one way or the other
Backend(n) ==
    /\ snaps[n] = "IN_PROGRESS"
    /\ \E to \in {"SUCCESS", "FAILED"} : snaps' = [snaps EXCEPT ![n] = to]
    /\ UNCHANGED <<store, now, regVars, procVars, last, runVars, cfgRepo, bucket, repos, env0>>

PipeNext ==
    \/ \E p \in Runs : Begin(p)
    \/ \E p \in Runs : Dispatch(p)
    \/ \E p \in Runs : DispatchFault(p)
    \/ \E p \in Runs : PreRepoExists(p)
    \/ \E p \in Runs : PreBucketExists(p)
    \/ \E p \in Runs : PreBucketCreate(p)
    \/ \E p \in Runs : PreRepoCreate(p)
    \/ \E p \in Runs : SnapExists(p)
    \/ \E p \in Runs : SnapDelete(p)
    \/ \E p \in Runs : SnapCreate(p)
    \/ \E p \in Runs : SnapPoll(p)
    \/ \E p \in Runs : Post(p)
    \/ \E p \in Runs : Resume(p)
    \/ \E n \in Indices : Backend(n)

PipeSpec == PipeInit /\ [][PipeNext]_vars

\* The pipeline with workers that keep running and a backend that brings
\* every snapshot it began to SUCCESS or FAILED
LivePipeSpec ==
    /\ PipeSpec
    /\ \A p \in Runs :
        /\ WF_vars(SnapDelete(p))
        /\ WF_vars(SnapCreate(p))
        /\ WF_vars(SnapPoll(p))
    /\ \A n \in Indices : WF_vars(Backend(n))

\* ------------------------------------------------------------ claims
Terminal(job) == job["status"] \in {"success", "failed", "cancelled"}
Exists(b) == store[b] # Missing
JobsOf(b) == store[b].jobs

\* C1: a started() call made while the stage is not READY raises the
\* invalid-state fault, appends no Job record to any build document and
\* leaves the stage as it was.
C1_StartedNotReadyFaults ==
    [][(last'.op = "started" /\ stage[last'.reg] # READY)
         => (last'.fault = "InvalidState" /\ store' = store /\ stage' = stage)]_vars

\* C1 witness: a second started() faulted on a registrar that had started
C1_Witness ==
    /\ last.op = "started"
    /\ last.fault = "InvalidState"
    /\ stage[last.reg] = STARTED
    /\ Exists(bld[last.reg])
    /\ Len(JobsOf(bld[last.reg])) = 1

\* C2: succeed() or failed(), of any class, called while the stage is not
\* STARTED raises the invalid-state fault and leaves the registrar's stage and
\* every build document unchanged.
C2_DoneNotStartedFaults ==
    [][(last'.op \in {"succeed", "failed"} /\ stage[last'.reg] # STARTED)
         => (last'.fault = "InvalidState" /\ stage' = stage /\ store' = store)]_vars

\* C2 witness: succeed() of the main-step class faulted before any started()
C2_Witness ==
    /\ last.op = "succeed"
    /\ last.fault = "InvalidState"
    /\ stage[last.reg] = READY
    /\ kind[last.reg] = "MainIndex"

\* C3: after prune() no build document holds a record "in progress"; every
\* record that was "in progress" is "cancelled" and has no pid; a document
\* that held no such record is not replaced and is unchanged.
C3_Prune ==
    [][last'.op = "prune" =>
        \A b \in Builds :
            /\ Exists(b) =>
                /\ store'[b] # Missing
                /\ Len(store'[b].jobs) = Len(JobsOf(b))
                /\ \A i \in 1..Len(JobsOf(b)) :
                    /\ ~InProgress(store'[b].jobs[i])
                    /\ InProgress(JobsOf(b)[i]) =>
                        /\ store'[b].jobs[i]["status"] = "cancelled"
                        /\ "pid" \notin DOMAIN store'[b].jobs[i]
            /\ (~Exists(b) \/ ~Dirty(store[b])) =>
                /\ b \notin last'.writes
                /\ store'[b] = store[b]]_vars

\* C3 witness: prune() replaced one document, whose stale record it
\* cancelled, and left alone another that held a finished record
C3_Witness ==
    /\ last.op = "prune"
    /\ last.writes = {"b1"}
    /\ \E i \in 1..Len(JobsOf("b1")) : JobsOf("b1")[i]["status"] = "cancelled"
    /\ Exists("b2")
    /\ Len(JobsOf("b2")) = 1
    /\ Terminal(JobsOf("b2")[1])

\* C4: when started("index") and then succeed(result) ran on an existing
\* build whose job log was empty and that no other registrar used, the log
\* holds exactly one record: "success", step "index", no pid, a duration of
\* zero or more; and the stage is DONE.
C4_RoundTrip ==
    \A r \in Regs :
        ( /\ outcome[r] = "succeed"
          /\ StepOf(kind[r], "index") = "index"
          /\ \A q \in Regs \ {r} : bld[q] = bld[r] => stage[q] = READY )
        => /\ stage[r] = DONE
           /\ Exists(bld[r])
           /\ Len(JobsOf(bld[r])) = 1
           /\ JobsOf(bld[r])[1]["status"] = "success"
           /\ JobsOf(bld[r])[1]["step"] = "index"
           /\ "pid" \notin DOMAIN JobsOf(bld[r])[1]
           /\ "time_in_s" \in DOMAIN JobsOf(bld[r])[1]
           /\ JobsOf(bld[r])[1]["time_in_s"] >= 0

\* C4 witness: the base class has just run succeed({}) after started("index"),
\* some time after it started
C4_Witness ==
    /\ last.op = "succeed"
    /\ last.fault = "none"
    /\ last.arg = EmptyDict
    /\ kind[last.reg] = "Base"
    /\ \A q \in Regs \ {last.reg} : stage[q] = READY
    /\ JobsOf(bld[last.reg])[1]["time_in_s"] > 0

\* The index metadata C5 expects after MainIndexJSR.succeed(result)
C5_Supplied(result) ==
    IF IndexName \in Keys(result) /\ IsDict(result.d[IndexName])
    THEN result.d[IndexName].d ELSE <<>>

C5_Default(k, t) ==
    CASE k = "host" -> Leaf(Hosts)
      [] k = "environment" -> Leaf(EnvName)
      [] OTHER -> Leaf(t)

\* C5: after started() and succeed(result) of the main-step class, whatever
\* the result, the build's index mapping holds an entry under the index name
\* with host, environment and created_at, each the caller's value when the
\* caller gave one and the default otherwise, and with the caller's other
\* fields.
C5_MainIndexMetadata ==
    (last.op = "succeed" /\ last.fault = "none" /\ kind[last.reg] = "MainIndex")
    => LET meta == store[bld[last.reg]].index
           given == C5_Supplied(last.arg)
       IN  /\ IndexName \in Keys(meta)
           /\ IsDict(meta.d[IndexName])
           /\ \A k \in {"host", "environment", "created_at"} :
                /\ k \in Keys(meta.d[IndexName])
                /\ meta.d[IndexName].d[k] =
                      IF k \in DOMAIN given THEN given[k] ELSE C5_Default(k, now)
           /\ \A k \in DOMAIN given :
                k \in Keys(meta.d[IndexName]) /\ meta.d[IndexName].d[k] = given[k]

\* C10: a Job record appears only by a started() call, as the last record and
\* "in progress"; a call that changes a record is a succeed(), failed() or
\* prune() and leaves it terminal; and a record that is "success", "failed"
\* or "cancelled" is changed by no call, so a record is finalized at most once.
C10_TerminalRecordsFrozen ==
    [][\A b \in Builds :
        Exists(b) =>
            /\ store'[b] # Missing
            /\ Len(store'[b].jobs) >= Len(JobsOf(b))
            /\ \A i \in 1..Len(JobsOf(b)) :
                /\ Terminal(JobsOf(b)[i]) => store'[b].jobs[i] = JobsOf(b)[i]
                /\ store'[b].jobs[i] # JobsOf(b)[i] =>
                    /\ last'.op \in {"succeed", "failed", "prune"}
                    /\ Terminal(store'[b].jobs[i])
            /\ Len(store'[b].jobs) > Len(JobsOf(b)) =>
                /\ last'.op = "started"
                /\ Len(store'[b].jobs) = Len(JobsOf(b)) + 1
                /\ InProgress(store'[b].jobs[Len(store'[b].jobs)])]_vars

\* C10 witness: a finalize call has just faulted on a last record that
\* another registrar had already finalized, while its own record is still
\* "in progress"
C10_Witness ==
    /\ last.op \in {"succeed", "failed"}
    /\ last.fault = "KeyError"
    /\ Len(JobsOf(bld[last.reg])) = 2
    /\ InProgress(JobsOf(bld[last.reg])[1])
    /\ Terminal(JobsOf(bld[last.reg])[2])

\* The record that phase k of run p appended
RunJob(p, k) == JobsOf(rb[p])[mine[p][k]]
Phases == 1..Len(Steps)

\* C6: in every interleaving of the runs, a run starts its phases in the
\* order pre, snapshot, post, each at most once: the registrar of a phase is
\* started only when the registrar of the phase before it is DONE, its
\* started() appends one record with the label of the phase, and a registrar
\* that has started is never started again.
C6_PhaseOrder ==
    /\ [](\A p \in Runs : \A k \in 1..(Len(Steps) - 1) :
            /\ rstage[p][k + 1] # "NONE" => rstage[p][k] = DONE
            /\ mine[p][k + 1] # 0 => (mine[p][k] # 0 /\ mine[p][k] < mine[p][k + 1]))
    /\ [][\A p \in Runs : \A k \in Phases :
            /\ rstage[p][k] # "NONE" => rstage'[p][k] \in {rstage[p][k], DONE}
            /\ (rstage[p][k] = "NONE" /\ rstage'[p][k] # "NONE") =>
                /\ rstage'[p][k] = STARTED
                /\ k > 1 => rstage'[p][k - 1] = DONE
                /\ \A j \in Phases : j > k => rstage'[p][j] = "NONE"
                /\ Len(store'[rb'[p]].jobs) = Len(JobsOf(rb'[p])) + 1
                /\ mine'[p][k] = Len(store'[rb'[p]].jobs)
                /\ store'[rb'[p]].jobs[mine'[p][k]]["step"] = Steps[k]]_vars

\* C6 witness: a run is in its post phase while another run is active on
\* the same build
C6_Witness ==
    /\ rstage["p1"] = <<DONE, DONE, STARTED>>
    /\ Active("p2")
    /\ rb["p2"] = rb["p1"]
    /\ rstage["p2"][1] = STARTED

\* C7: when the pre phase of a run succeeded and its polling saw FAILED, the
\* run ends with a fault and never starts its post phase or appends a record
\* for it; and, when no other run was active on its build, its "snapshot"
\* record is "failed" with err the text of the fault, and the fault the caller
\* gets is that ValueError.
C7_SnapshotFailed ==
    \A p \in Runs :
        (wres[p] = Raised("ValueError", "FAILED") /\ pc[p] # "resume")
        => /\ pc[p] = "raised"
           /\ ph[p] = 2
           /\ raised[p] # "none"
           /\ rstage[p] = <<DONE, DONE, "NONE">>
           /\ mine[p][3] = 0
           /\ ~shared[p] =>
                /\ raised[p] = "ValueError"
                /\ RunJob(p, 1)["status"] = "success"
                /\ RunJob(p, 2)["step"] = "snapshot"
                /\ RunJob(p, 2)["status"] = "failed"
                /\ RunJob(p, 2)["err"] = "FAILED"
                /\ "pid" \notin DOMAIN RunJob(p, 2)

\* C7 witness: a run alone on its build ended on a FAILED snapshot
C7_Witness ==
    /\ pc["p1"] = "raised"
    /\ ph["p1"] = 2
    /\ wres["p1"] = Raised("ValueError", "FAILED")
    /\ ~shared["p1"]
    /\ snaps["news_2024"] = "FAILED"
    /\ Len(JobsOf("b1")) = 2

\* C8: a single run on a managed index, the bucket, the repository and the
\* snapshot absent at the start, the repository named without placeholders,
\* the dispatch working and the backend not failing: the run ends with the
\* bucket and then the repository created, the snapshot named after the index
\* created and SUCCESS, three Job records pre, snapshot, post, all "success",
\* and the index metadata as it was.
C8_EndToEnd ==
    \A p \in Runs :
        ( /\ pc[p] \in {"done", "raised"}
          /\ \A q \in Runs \ {p} : pc[q] = "idle"
          /\ rb[p] # NoBuild
          /\ cfgRepo = <<"s3_repo">>
          /\ ~env0.bucket
          /\ env0.repos = {}
          /\ env0.snaps[idx[p]] = "ABSENT"
          /\ raised[p] # "DispatchError"
          /\ \A n \in Indices : snaps[n] # "FAILED" )
        => /\ pc[p] = "done"
           /\ bucket
           /\ repos = {FormatRepo(cfgRepo)}
           /\ calls[p] = <<"Bucket.create", "Repository.create", "Snapshot.create">>
           /\ snaps[SnapName(p)] = "SUCCESS"
           /\ Len(JobsOf(rb[p])) = 3
           /\ \A k \in Phases :
                /\ JobsOf(rb[p])[k]["step"] = Steps[k]
                /\ JobsOf(rb[p])[k]["status"] = "success"
           /\ store[rb[p]].index = IndexedDoc(idx[p]).index

\* C9: no build document ever holds more than one record "in progress",
\* also when several runs work on the same build document.
C9_OneInProgress ==
    \A b \in Builds :
        Exists(b) =>
            Cardinality({i \in 1..Len(JobsOf(b)) : InProgress(JobsOf(b)[i])}) <= 1

\* C11: whatever the interleaving of started(), succeed(), failed() and
\* prune() of registrars in processes of their own, the job log of a build
\* document never gets shorter and a record stays at its position: what the
\* position held before (its step and its start time) it holds afterwards.
C11_AppendOnly ==
    [][\A b \in Builds :
        Exists(b) =>
            /\ store'[b] # Missing
            /\ Len(store'[b].jobs) >= Len(JobsOf(b))
            /\ \A i \in 1..Len(JobsOf(b)) :
                /\ store'[b].jobs[i]["step"] = JobsOf(b)[i]["step"]
                /\ store'[b].jobs[i]["step_started_at"] = JobsOf(b)[i]["step_started_at"]]_vars

\* The positions of a worker inside pre_snapshot
PreBody == {"pre_repo_exists", "pre_bucket_exists", "pre_bucket_create", "pre_repo_create"}

\* C12: in every run of pre_snapshot on a managed index: when the repository
\* exists, the phase returns with no bucket-create and no repository-create
\* call; when it is missing, an absent bucket is created first, the
\* repository-create call is made with the bucket in place, and the phase
\* returns with the repository in place; so a run of the phase after one
\* that returned finds the repository and makes no create call.
C12_Provisioning ==
    [][\A p \in Runs :
        (pc[p] \in PreBody /\ pc'[p] # pc[p]) =>
            /\ (pc[p] = "pre_repo_exists" /\ FormatRepo(cfgRepo) \in repos) =>
                /\ pc'[p] = "resume"
                /\ calls'[p] = calls[p]
                /\ bucket' = bucket
                /\ repos' = repos
            /\ pc[p] = "pre_bucket_create" =>
                /\ ~bucket
                /\ bucket'
                /\ pc'[p] = "pre_repo_create"
            /\ pc[p] = "pre_repo_create" =>
                /\ bucket
                /\ calls'[p] = Append(calls[p], "Repository.create")
            /\ (pc'[p] = "resume" /\ DocId(store, idx[p]) # NoBuild) =>
                /\ wres'[p] = Returned(PreResult)
                /\ FormatRepo(cfgRepo) \in repos']_vars

\* The positions in the calls of run p of the call named c
CallsAt(p, c) == {i \in 1..Len(calls[p]) : calls[p][i] = c}

\* The snapshot runner of run p has returned its result
SnapReturned(p) == wres[p].ok /\ "replaced" \in Keys(wres[p].val)

\* C13: when the snapshot runner returns, replaced is true exactly when the
\* backend held a snapshot of the target name as the runner started; then
\* the runner issued one delete and, after it, its one create; otherwise
\* replaced is false and the runner issued no delete and one create.
C13_ReplacedFlag ==
    \A p \in Runs :
        SnapReturned(p) =>
            /\ wres[p].val.d["replaced"] = Leaf(found[p])
            /\ Cardinality(CallsAt(p, "Snapshot.create")) = 1
            /\ Cardinality(CallsAt(p, "Snapshot.delete")) = IF found[p] THEN 1 ELSE 0
            /\ \A i \in CallsAt(p, "Snapshot.delete") :
                 \A j \in CallsAt(p, "Snapshot.create") : i < j

\* C13 witness: a runner that found a snapshot of its name has returned,
\* the old snapshot deleted and the new one complete
C13_Witness ==
    /\ SnapReturned("p1")
    /\ found["p1"]
    /\ wres["p1"].val.d["replaced"] = Leaf(TRUE)
    /\ env0.snaps["news_2024"] = "SUCCESS"
    /\ snaps["news_2024"] = "SUCCESS"
    /\ calls["p1"] = <<"Repository.create", "Snapshot.delete", "Snapshot.create">>

\* C14: a runner leaves its polling loop only by a poll that read SUCCESS,
\* and then it returns its result, or by a poll that read FAILED, and then
\* it raises a ValueError carrying that state; a poll that read anything
\* else leaves the runner in the loop; and with workers that keep running
\* and a backend that finishes every snapshot, a runner in the loop
\* eventually leaves it.
C14_Polling ==
    /\ [][\A p \in Runs :
            pc[p] = "snap_poll" =>
                LET state == SnapshotState(SnapName(p), cfgRepo, repos, snaps) IN
                /\ pc'[p] \in {"snap_poll", "resume"}
                /\ (pc'[p] = "resume" /\ wres'[p].ok) =>
                     (state = "SUCCESS" /\ wres'[p] = Returned(SnapResult(repl[p], now)))
                /\ (pc'[p] = "resume" /\ ~wres'[p].ok) =>
                     (state = "FAILED" /\ wres'[p] = Raised("ValueError", "FAILED"))
                /\ state \notin {"SUCCESS", "FAILED"} => pc'[p] = "snap_poll"]_vars
    /\ \A p \in Runs : (pc[p] = "snap_poll") ~> (pc[p] # "snap_poll")

\* C14 witness: a runner has left the loop on the SUCCESS of a snapshot it
\* created where there was none, while the snapshot of another run is still
\* in progress
C14_Witness ==
    /\ pc["p1"] = "resume"
    /\ ph["p1"] = 2
    /\ SnapReturned("p1")
    /\ ~found["p1"]
    /\ snaps["news_2024"] = "SUCCESS"
    /\ pc["p2"] = "snap_poll"
    /\ snaps[idx["p2"]] = "IN_PROGRESS"

\* C15: a failed(error) call made in stage STARTED on an existing build
\* leaves every other build document, every record but the last, the index
\* and the pending tags as they were and adds or removes no record; when the
\* last record is "in progress" the call returns and that record is "failed"
\* with err the text of the error, time and time_in_s set, no pid and its
\* other fields as before; when it is not, the call faults and changes
\* nothing.
C15_FailedFrame ==
    [][(last'.op = "failed" /\ stage[last'.reg] = STARTED /\ Exists(bld[last'.reg])) =>
        LET b == bld[last'.reg]
            n == Len(JobsOf(b))
            old == JobsOf(b)[n]
            new == store'[b].jobs[n]
        IN  /\ \A c \in Builds \ {b} : store'[c] = store[c]
            /\ store'[b] # Missing
            /\ DOMAIN store'[b] = DOMAIN store[b]
            /\ store'[b].index = store[b].index
            /\ store'[b].pending = store[b].pending
            /\ Len(store'[b].jobs) = n
            /\ \A i \in 1..(n - 1) : store'[b].jobs[i] = JobsOf(b)[i]
            /\ (n > 0 /\ InProgress(old)) =>
                /\ last'.fault = "none"
                /\ new["status"] = "failed"
                /\ Leaf(new["err"]) = last'.arg
                /\ new["time_in_s"] = now - t0[last'.reg]
                /\ new["time"] = timesofar(t0[last'.reg], now)
                /\ DOMAIN new = ((DOMAIN old) \ {"pid"}) \cup {"err", "time", "time_in_s"}
                /\ \A k \in {"step", "step_started_at", "logfile"} : new[k] = old[k]
            /\ (n = 0 \/ ~InProgress(old)) =>
                /\ last'.fault # "none"
                /\ store'[b] = store[b]]_vars

\* C15 witness: failed() has just returned on a build that holds an earlier
\* "success" record and index metadata
C15_Witness ==
    /\ last.op = "failed"
    /\ last.fault = "none"
    /\ Len(JobsOf(bld[last.reg])) = 2
    /\ JobsOf(bld[last.reg])[1]["status"] = "success"
    /\ JobsOf(bld[last.reg])[2]["status"] = "failed"
    /\ store[bld[last.reg]].index # EmptyDict

\* The step results of run p, by phase
StepResults(p) == <<PreResult, SnapResult(repl[p], now), EmptyDict>>

\* The step results 1..k merged in their order, each over the ones before
RECURSIVE MergeUpTo(_, _)
MergeUpTo(dxs, k) == IF k = 0 THEN EmptyDict ELSE merge(MergeUpTo(dxs, k - 1), dxs[k])

\* C16: when phase k of a run ends well, succeed() is handed the mapping
\* from the snapshot name to the merge of the step results of phases 1..k
\* of the run, each merged over the earlier ones, and the CumulativeResult is
\* that merge; every key of the result of a phase 1..k is in it, with the
\* value of the last phase that returned the key.
C16_Cumulative ==
    [][\A p \in Runs :
        (pc[p] = "resume" /\ wres[p].ok /\ pc'[p] # "resume") =>
            LET k == ph[p]
                dxs == StepResults(p)
                all == MergeUpTo(dxs, k)
            IN  /\ wres[p].val = dxs[k]
                /\ x'[p] = all
                /\ handed'[p] = Dict([n \in {SnapName(p)} |-> all])
                /\ \A j \in 1..k : \A key \in Keys(dxs[j]) :
                    /\ key \in Keys(all)
                    /\ \/ all.d[key] = dxs[j].d[key]
                       \/ \E m \in (j + 1)..k : key \in Keys(dxs[m])]_vars

\* C16 witness: the post phase of a run that replaced a snapshot has ended
\* well, and succeed() was handed the results of all three phases
C16_Witness ==
    /\ pc["p1"] = "done"
    /\ rstage["p1"] = <<DONE, DONE, DONE>>
    /\ handed["p1"] =
          Dict([n \in {"news_2024"} |->
                 Dict([k \in {"indexer_env", "environment", "replaced", "created_at"} |->
                         CASE k = "indexer_env" -> Leaf(IdxEnv)
                           [] k = "environment" -> Leaf(SnapEnv)
                           [] k = "replaced" -> Leaf(TRUE)
                           [] OTHER -> Leaf(now)])])

\* C17: when a run has ended, with a result or with a fault, whichever step
\* raised it, every record the run appended is "success" or "failed".
C17_NoRecordLeftOpen ==
    \A p \in Runs :
        pc[p] \in {"done", "raised"} =>
            \A k \in Phases :
                mine[p][k] # 0 => RunJob(p, k)["status"] \in {"success", "failed"}

\* C18: a succeed() or failed() call that returns changes, in the build
\* document of its registrar, no record but the one that the started() of
\* the same registrar appended, also when another registrar has started on
\* the same build document in between.
C18_OwnRecordOnly ==
    [][(last'.op \in {"succeed", "failed"} /\ last'.fault = "none") =>
        LET r == last'.reg
            b == bld[r]
        IN  \A i \in 1..Len(JobsOf(b)) :
                store'[b].jobs[i] # JobsOf(b)[i] => i = own[r]]_vars

\* C19: a registrar comes to stage DONE only by a succeed() or failed() call
\* of its own that returned after replacing its build document, the record
\* it finalized being "success" or "failed"; a call that faults before the
\* replace, the build document missing or the last record without a pid,
\* leaves the stage as it was.
C19_DoneIsPersisted ==
    [][\A r \in Regs :
        (stage[r] # DONE /\ stage'[r] = DONE) =>
            /\ last'.reg = r
            /\ last'.op \in {"succeed", "failed"}
            /\ last'.fault = "none"
            /\ last'.writes = {bld[r]}
            /\ store'[bld[r]] # Missing
            /\ store'[bld[r]].jobs[Len(store'[bld[r]].jobs)]["status"] \in {"success", "failed"}]_vars

\* The positions of a worker inside _snapshot
SnapBody == {"snap_exists", "snap_delete", "snap_create", "snap_poll"}

\* C20: while the snapshot phase of a run checks, deletes, creates or polls
\* its snapshot, the repository it names is the one the pre phase named, a
\* repository that exists, whatever the configured name.
C20_SameRepository ==
    \A p \in Runs :
        pc[p] \in SnapBody => (SnapRepo = PreRepo /\ SnapRepo \in repos)

====
